---- MODULE Spec2Model ----
(***************************************************************************)
(* A model of Raster (src/Raster.py) and of reproject_gdf / clip_raster    *)
(* (src/vector_utils.py).                                                  *)
(*                                                                         *)
(* Numbers.  Pixel values, gains, offsets and wavelengths are fixed-point  *)
(* numbers with one binary digit after the point: the integer n stands for *)
(* the value n/2.  An int16 array holds even numbers only.  Every gain of  *)
(* the modelled files is a whole number, so products are exact.            *)
(*                                                                         *)
(* Objects.  Arrays, profiles and vector layers are objects of a heap      *)
(* (heap[ref]); the asset's fields profile and datacube hold references.   *)
(* An object lives as long as the asset, the caller of the last call (who  *)
(* may have kept what the asset referenced before it, and what the call    *)
(* returned) or the fixed set of input layers refers to it.                *)
(***************************************************************************)
EXTENDS Integers, Sequences, FiniteSets, TLC

VARIABLES raster, heap, last, openHandles, history

vars == <<raster, heap, last, openHandles, history>>

\* The heap may grow to this many cells before the calls stop.
MaxObjects == 12

----------------------------------------------------------------------------
(* Values *)

None == [tag |-> "None"]
NoneRef == 0
FreeCell == [tag |-> "free"]

Str(s) == [tag |-> "str", s |-> s]
Dict(d) == [tag |-> "dict", d |-> d]
List(l) == [tag |-> "list", items |-> l]
NdArray(dtype, data) == [tag |-> "ndarray", dtype |-> dtype, data |-> data]

Ok(v) == [status |-> "ok", by |-> "", value |-> v]
Raise(exc, by) == [status |-> exc, by |-> by, value |-> None]

\* shape of a band x row x column array
Bands(data) == Len(data)
Rows(data) == IF Len(data) = 0 THEN 0 ELSE Len(data[1])
Cols(data) == IF Rows(data) = 0 THEN 0 ELSE Len(data[1][1])

\* float(s) of the decimal strings that occur in the descriptors, as n/2
Float32(s) ==
    CASE s = "0" -> 0
      [] s = "0.5" -> 1
      [] s = "1" -> 2
      [] s = "2" -> 4
      [] s = "450" -> 900
      [] s = "550" -> 1100
      [] s = "650" -> 1300

\* a * b of two fixed-point numbers
FMul(a, b) == (a * b) \div 2

\* C conversion of a float to an integer type: the fraction is dropped
TruncToInt(x) == IF x >= 0 THEN x - (x % 2) ELSE -((-x) - ((-x) % 2))

CastValue(dtype, x) == IF dtype = "int16" THEN TruncToInt(x) ELSE x

AsType(dtype, data) ==
    [b \in 1..Len(data) |->
        [r \in 1..Len(data[b]) |->
            [c \in 1..Len(data[b][r]) |-> CastValue(dtype, data[b][r][c])]]]

----------------------------------------------------------------------------
(* Paths and the files on disk *)

Path(dir, base) == [tag |-> "path", dir |-> dir, base |-> base]

\* os.path.dirname / os.path.basename; a directory is the sequence of its
\* components (<<>> is the empty string), a file name a sequence of tokens
Dirname(p) == p.dir
Basename(p) == p.base

\* str.replace(old, new) on a token sequence: every occurrence is replaced
Replace(name, old, new) ==
    [i \in 1..Len(name) |-> IF name[i] = old THEN new ELSE name[i]]

Tif(prefix) == <<prefix, "SPECTRAL_IMAGE.TIF">>
Xml(prefix) == <<prefix, "METADATA.XML">>

Band(w, g, o) ==
    [wavelengthCenterOfBand |-> w, GainOfBand |-> g, OffsetOfBand |-> o]

\* band characterisation tables of the descriptors on disk
TwoBands == <<Band("450", "2", "0.5"), Band("550", "1", "0")>>
ThreeBands == <<Band("450", "2", "0"), Band("550", "1", "0"), Band("650", "1", "0.5")>>
OneBand == <<Band("450", "2", "0")>>
NoOffsetBands == <<Band("450", "2", "0"), Band("550", "1", "0")>>

Utm == "EPSG:32633"
Wgs84 == "EPSG:4326"
CRSs == {Utm, Wgs84}

Affine(x0, y0, px) == [x0 |-> x0, y0 |-> y0, px |-> px]

RasterFile(p, dtype, data) ==
    [kind |-> "raster", path |-> p,
     profile |-> [tag |-> "profile", dtype |-> dtype, nodata |-> None, count |-> Bands(data),
                  height |-> Rows(data), width |-> Cols(data), crs |-> Utm,
                  transform |-> Affine(0, 0, 4)],
     data |-> data]

XmlFile(p, bands) == [kind |-> "xml", path |-> p, bands |-> bands]

S1 == <<"scenes", "s1">>
S2 == <<"scenes", "s2">>
S3 == <<"scenes", "s3">>
S4 == <<"scenes", "s4">>
S5 == <<"scenes", "s5">>
S6 == <<"scenes", "s6">>
S7 == <<"scenes", "s7">>
Cwd == <<>>

Files ==
    { RasterFile(Path(S1, Tif("A_")), "int16",
                 << <<<<2, 4>>, <<6, 8>>>>, <<<<10, 12>>, <<14, 16>>>> >>),
      XmlFile(Path(S1, Xml("A_")), TwoBands),
      \* no descriptor next to it
      RasterFile(Path(S2, Tif("B_")), "int16", << <<<<18, 20>>>> >>),
      \* a name without the substring SPECTRAL_IMAGE.TIF, no descriptor
      RasterFile(Path(S3, <<"scene.tif">>), "int16", << <<<<2, 4>>>> >>),
      \* paths without a directory component, with and without descriptor
      RasterFile(Path(Cwd, Tif("C_")), "int16", << <<<<2, 4>>>> >>),
      XmlFile(Path(Cwd, Xml("C_")), TwoBands),
      RasterFile(Path(Cwd, Tif("D_")), "int16", << <<<<6, 8>>>> >>),
      \* one band, a descriptor of two bands
      RasterFile(Path(S4, Tif("E_")), "int16", << <<<<2, 4>>>> >>),
      XmlFile(Path(S4, Xml("E_")), TwoBands),
      \* two bands, a descriptor of three bands
      RasterFile(Path(S5, Tif("F_")), "int16",
                 << <<<<2, 4>>>>, <<<<6, 8>>>> >>),
      XmlFile(Path(S5, Xml("F_")), ThreeBands),
      \* one band, a descriptor of one band
      RasterFile(Path(S6, Tif("G_")), "int16", << <<<<2, 4>>>> >>),
      XmlFile(Path(S6, Xml("G_")), OneBand),
      \* float32 pixels, the first band all zero
      RasterFile(Path(S7, Tif("H_")), "float32",
                 << <<<<0, 0>>>>, <<<<3, 5>>>> >>),
      XmlFile(Path(S7, Xml("H_")), NoOffsetBands) }

\* the paths load_from_file is called with: every raster on disk and one
\* path where there is no file
RasterPaths ==
    {f.path : f \in {g \in Files : g.kind = "raster"}}
        \cup {Path(S2, Tif("missing_"))}

FileAt(p) == CHOOSE f \in Files : f.path = p
Exists(p) == \E f \in Files : f.path = p

\* os.listdir(directory): the names in it; the empty string is no directory
ListDir(directory) ==
    IF directory = <<>>
    THEN Raise("FileNotFoundError", "os.listdir")
    ELSE Ok({Basename(f.path) : f \in {g \in Files : Dirname(g.path) = directory}})

\* xmltodict.parse: repeated bandID elements become a list, a single one a dict
XmlToDict(bands) ==
    LET entry(i) == Dict(bands[i])
        bandID == IF Len(bands) = 1
                  THEN entry(1)
                  ELSE List([i \in 1..Len(bands) |-> entry(i)])
    IN Dict([level_X |-> [specific |-> [bandCharacterisation |-> [bandID |-> bandID]]]])

----------------------------------------------------------------------------
(* Raster *)

\* Raster.find_metadata_file
FindMetadataFile(self) ==
    LET tiff_file_path == self.path
        directory == Dirname(tiff_file_path)
        xml_filename == Replace(Basename(tiff_file_path),
                                "SPECTRAL_IMAGE.TIF", "METADATA.XML")
        listing == ListDir(directory)
    IN IF listing.status # "ok" THEN listing
       ELSE IF xml_filename \in listing.value
            THEN Ok(Path(directory, xml_filename))
            ELSE Raise("FileNotFoundError", "find_metadata_file")

\* Raster.get_metadata: the set of its possible outcomes.  A file that is no
\* XML text fails in decoding or in parsing, whichever its bytes provoke.
GetMetadata(self) ==
    LET found == FindMetadataFile(self)
    IN IF found.status # "ok" THEN {found}
       ELSE LET f == FileAt(found.value)
            IN IF f.kind = "xml"
               THEN {Ok(XmlToDict(f.bands))}
               ELSE {Raise("UnicodeDecodeError", "file.read"),
                     Raise("ExpatError", "xmltodict.parse")}

\* self.metadata["level_X"]["specific"]["bandCharacterisation"]["bandID"]
BandIds(self) ==
    IF self.metadata.tag # "dict"
    THEN Raise("TypeError", "subscript")
    ELSE Ok(self.metadata.d.level_X.specific.bandCharacterisation.bandID)

\* Column with a fault: the last band is left out
ColumnDropLast(band_ids, key) ==
    IF band_ids.tag # "list"
    THEN Raise("TypeError", "subscript")
    ELSE Ok([i \in 1..(Len(band_ids.items) - 1) |->
                Float32(CASE key = "wavelengthCenterOfBand" ->
                                band_ids.items[i].d.wavelengthCenterOfBand
                          [] key = "GainOfBand" -> band_ids.items[i].d.GainOfBand
                          [] key = "OffsetOfBand" -> band_ids.items[i].d.OffsetOfBand)])

\* [band[key] for band in band_ids] as a float32 array: iterating a dict
\* yields its keys, and a key (a string) cannot be indexed by a string
Column(band_ids, key) ==
    IF band_ids.tag # "list"
    THEN Raise("TypeError", "subscript")
    ELSE Ok([i \in 1..Len(band_ids.items) |->
                Float32(CASE key = "wavelengthCenterOfBand" ->
                                band_ids.items[i].d.wavelengthCenterOfBand
                          [] key = "GainOfBand" -> band_ids.items[i].d.GainOfBand
                          [] key = "OffsetOfBand" -> band_ids.items[i].d.OffsetOfBand)])

\* Raster.get_wavelengths
GetWavelengths(self) ==
    LET band_ids == BandIds(self)
    IN IF band_ids.status # "ok" THEN band_ids
       ELSE Column(band_ids.value, "wavelengthCenterOfBand")

\* Raster.get_gains_and_offsets
GetGainsAndOffsets(self) ==
    LET band_ids == BandIds(self)
    IN IF band_ids.status # "ok" THEN band_ids
       ELSE LET gains == Column(band_ids.value, "GainOfBand")
                offsets == Column(band_ids.value, "OffsetOfBand")
            IN IF gains.status # "ok" THEN gains
               ELSE Ok([gains |-> gains.value, offsets |-> offsets.value])

\* Broadcast with a fault: self.datacube * gains + offsets, which numpy
\* broadcasts along the column axis
BroadcastLastAxis(data, gains, offsets) ==
    LET W == Cols(data)
        N == Len(gains)
        n == IF W = 1 THEN N ELSE W
    IN IF W # N /\ W # 1 /\ N # 1
       THEN Raise("ValueError", "broadcast")
       ELSE Ok(NdArray("float32",
                [b \in 1..Bands(data) |->
                    [r \in 1..Len(data[b]) |->
                        [c \in 1..n |->
                            FMul(data[b][r][IF W = 1 THEN 1 ELSE c],
                                 gains[IF N = 1 THEN 1 ELSE c])
                                + offsets[IF N = 1 THEN 1 ELSE c]]]]))

\* self.datacube * gains[:, None, None] + offsets[:, None, None]: numpy
\* broadcasts the band axes against each other (equal, or one of them 1)
\* and the result is a new float32 array
Broadcast(data, gains, offsets) ==
    LET B == Bands(data)
        N == Len(gains)
        band(b) == IF B = 1 THEN data[1] ELSE data[b]
        g(b) == IF N = 1 THEN gains[1] ELSE gains[b]
        o(b) == IF N = 1 THEN offsets[1] ELSE offsets[b]
        n == IF B = 1 THEN N ELSE B
    IN IF B # N /\ B # 1 /\ N # 1
       THEN Raise("ValueError", "broadcast")
       ELSE Ok(NdArray("float32",
                [b \in 1..n |->
                    [r \in 1..Len(band(b)) |->
                        [c \in 1..Len(band(b)[r]) |->
                            FMul(band(b)[r][c], g(b)) + o(b)]]]))

RetSelf == [tag |-> "Raster", is_self |-> TRUE]
RetRef(ref) == [tag |-> "ref", ref |-> ref]

Outcome(res, self, h, ret) ==
    [status |-> res.status, by |-> res.by, raster |-> self, heap |-> h, ret |-> ret]

\* SetDatacube with a fault: the array the field refers to is overwritten
SetDatacubeInPlace(self, h, value) ==
    [raster |-> self, heap |-> [h EXCEPT ![self.datacube] = value]]

\* the datacube setter: the field is bound to the array object `value`
SetDatacube(self, h, value) ==
    [raster |-> [self EXCEPT !.datacube = Len(h) + 1], heap |-> Append(h, value)]

\* the body of Raster.rescale, given what get_gains_and_offsets returned
RescaleWith(self, h, go) ==
    IF go.status # "ok"
    THEN Outcome(go, self, h, None)
    ELSE IF self.datacube = NoneRef
         THEN Outcome(Raise("TypeError", "multiply"), self, h, None)
         ELSE LET product == Broadcast(h[self.datacube].data,
                                       go.value.gains, go.value.offsets)
              IN IF product.status # "ok" THEN Outcome(product, self, h, None)
                 ELSE LET set == SetDatacube(self, h, product.value)
                      IN Outcome(product, set.raster, set.heap, RetSelf)

\* Rescale with a fault: the calibration is applied by the first call only
RescaleOnce(self, h) ==
    IF history.rescales > 0
    THEN Outcome(Ok(None), self, h, RetSelf)
    ELSE RescaleWith(self, h, GetGainsAndOffsets(self))

\* Raster.rescale
Rescale(self, h) == RescaleWith(self, h, GetGainsAndOffsets(self))

\* OpenRaster with a fault: the name is not assigned
OpenRasterNoName(self, h, raster_path) ==
    LET src == FileAt(raster_path)
        h1 == Append(h, src.profile)
        h2 == Append(h1, NdArray(src.profile.dtype, src.data))
    IN [raster |-> [self EXCEPT !.profile = Len(h1), !.datacube = Len(h2),
                                !.path = raster_path],
        heap |-> h2]

\* the first four assignments of load_from_file: profile and pixels read
\* from the open dataset (two new objects), then path and name
OpenRaster(self, h, raster_path) ==
    LET src == FileAt(raster_path)
        h1 == Append(h, src.profile)
        h2 == Append(h1, NdArray(src.profile.dtype, src.data))
    IN [raster |-> [self EXCEPT !.profile = Len(h1), !.datacube = Len(h2),
                                !.path = raster_path,
                                !.name = Str(Basename(raster_path))],
        heap |-> h2]

\* Raster.load_from_file: the set of its possible outcomes
LoadFromFile(self, h, raster_path) ==
    IF ~(Exists(raster_path) /\ FileAt(raster_path).kind = "raster")
    THEN {Outcome(Raise("RasterioIOError", "rasterio.open"), self, h, None)}
    ELSE LET opened == OpenRaster(self, h, raster_path)
         IN { IF md.status # "ok" THEN Outcome(md, opened.raster, opened.heap, None)
              ELSE LET parsed == [opened.raster EXCEPT !.metadata = md.value]
                       wl == GetWavelengths(parsed)
                   IN IF wl.status # "ok"
                      THEN Outcome(wl, parsed, opened.heap, None)
                      ELSE Outcome(wl, [parsed EXCEPT !.wavelength =
                                            NdArray("float32", wl.value)],
                                   opened.heap, None)
              : md \in GetMetadata(opened.raster) }

----------------------------------------------------------------------------
(* vector_utils *)

NoCrs == "None"
GeoDataFrame(crs, geometry) == [tag |-> "gdf", crs |-> crs, geometry |-> geometry]
Box(minx, miny, maxx, maxy) ==
    [minx |-> minx, miny |-> miny, maxx |-> maxx, maxy |-> maxy]

\* coordinates of one point in the two reference systems differ by a shift
Easting(crs) == IF crs = Utm THEN 100 ELSE 0

\* GeoDataFrame.to_crs: a new layer, every coordinate transformed
ToCrs(gdf, dst_crs) ==
    LET d == Easting(dst_crs) - Easting(gdf.crs)
        g == gdf.geometry
    IN GeoDataFrame(dst_crs, Box(g.minx + d, g.miny + d, g.maxx + d, g.maxy + d))

\* ReprojectGdf with a fault: the layer is converted in place
ReprojectGdfInPlace(h, gdf, dst_crs) ==
    IF h[gdf].crs = NoCrs
    THEN [status |-> "CRSError", by |-> "CRS", heap |-> h, ret |-> NoneRef]
    ELSE IF h[gdf].crs # dst_crs
         THEN [status |-> "ok", by |-> "",
               heap |-> [h EXCEPT ![gdf] = ToCrs(h[gdf], dst_crs)], ret |-> gdf]
         ELSE [status |-> "ok", by |-> "", heap |-> h, ret |-> gdf]

\* reproject_gdf
ReprojectGdf(h, gdf, dst_crs) ==
    IF h[gdf].crs = NoCrs
    THEN [status |-> "CRSError", by |-> "CRS", heap |-> h, ret |-> NoneRef]
    ELSE IF h[gdf].crs # dst_crs
         THEN [status |-> "ok", by |-> "", heap |-> Append(h, ToCrs(h[gdf], dst_crs)),
               ret |-> Len(h) + 1]
         ELSE [status |-> "ok", by |-> "", heap |-> h, ret |-> gdf]

Floor(a, b) == a \div b
Ceil(a, b) == -((-a) \div b)
Max(a, b) == IF a > b THEN a ELSE b
Min(a, b) == IF a < b THEN a ELSE b

\* the window of the geometry's bounds on the dataset's pixel grid: offsets
\* rounded down, ends rounded up, then cut to the dataset
Window(profile, g) ==
    LET t == profile.transform
    IN [c0 |-> Max(Floor(g.minx - t.x0, t.px), 0),
        c1 |-> Min(Ceil(g.maxx - t.x0, t.px), profile.width),
        r0 |-> Max(Floor(g.miny - t.y0, t.px), 0),
        r1 |-> Min(Ceil(g.maxy - t.y0, t.px), profile.height)]

\* a pixel is kept when its centre lies inside the geometry
CentreInside(profile, g, r, c) ==
    LET t == profile.transform
        x2 == 2 * t.x0 + 2 * t.px * (c - 1) + t.px
        y2 == 2 * t.y0 + 2 * t.px * (r - 1) + t.px
    IN /\ 2 * g.minx < x2 /\ x2 < 2 * g.maxx
       /\ 2 * g.miny < y2 /\ y2 < 2 * g.maxy

\* rasterio.mask.mask(src, shapes, crop=True) on a dataset with this profile
\* and these stored pixels
Mask(profile, stored, g) ==
    LET w == Window(profile, g)
        fill == IF profile.nodata.tag = "None" THEN 0 ELSE profile.nodata.v
        t == profile.transform
    IN IF ~(w.c0 < w.c1 /\ w.r0 < w.r1)
       THEN Raise("ValueError", "rasterio.mask.mask")
       ELSE Ok([data |->
                  [b \in 1..Len(stored) |->
                    [r \in 1..(w.r1 - w.r0) |->
                      [c \in 1..(w.c1 - w.c0) |->
                        IF CentreInside(profile, g, r + w.r0, c + w.c0)
                        THEN stored[b][r + w.r0][c + w.c0]
                        ELSE fill]]],
                transform |-> Affine(t.x0 + t.px * w.c0, t.y0 + t.px * w.r0, t.px)])

\* src.write(raster.datacube) into a dataset opened with the profile: the
\* band count must be the dataset's, the pixels are stored in its dtype
Write(profile, cube) ==
    IF Bands(cube.data) # profile.count
    THEN Raise("ValueError", "src.write")
    ELSE Ok(AsType(profile.dtype, cube.data))

\* the two context managers of clip_raster (MemoryFile, the dataset opened
\* on it): both are closed when the block is left, normally or by an error
EnterMemoryFile(handles) == handles + 2
ExitMemoryFile(handles, status) == handles - 2

\* ClippedProfile with a fault: the width is not updated
ClippedProfileStaleWidth(profile, clipped_data, clipped_transform) ==
    [profile EXCEPT !.height = Rows(clipped_data), !.transform = clipped_transform]

\* clipped_profile = raster.profile.copy(); clipped_profile.update({...})
ClippedProfile(profile, clipped_data, clipped_transform) ==
    [profile EXCEPT !.height = Rows(clipped_data), !.width = Cols(clipped_data),
                    !.transform = clipped_transform]

ClipOutcome(res, self, h, ret, handles) ==
    [status |-> res.status, by |-> res.by, raster |-> self, heap |-> h,
     ret |-> ret, handles |-> handles]

\* clip_raster
ClipRaster(self, h, polygon, handles) ==
    IF self.profile = NoneRef
    THEN ClipOutcome(Raise("TypeError", "subscript"), self, h, None, handles)
    ELSE
    LET profile == h[self.profile]
        reprojected == ReprojectGdf(h, polygon, profile.crs)
    IN IF reprojected.status # "ok"
       THEN ClipOutcome(reprojected, self, h, None, handles)
       ELSE
       LET h1 == reprojected.heap
           entered == EnterMemoryFile(handles)
           written == Write(profile, h1[self.datacube])
           masked == IF written.status # "ok" THEN written
                     ELSE Mask(profile, written.value, h1[reprojected.ret].geometry)
           left == ExitMemoryFile(entered, masked.status)
       IN IF masked.status # "ok"
          THEN ClipOutcome(masked, self, h1, None, left)
          ELSE
          LET clipped_profile == ClippedProfile(profile, masked.value.data,
                                                masked.value.transform)
              set == SetDatacube(self, h1, NdArray(profile.dtype, masked.value.data))
              h3 == Append(set.heap, clipped_profile)
          IN ClipOutcome(masked, [set.raster EXCEPT !.profile = Len(h3)], h3,
                         RetSelf, left)

----------------------------------------------------------------------------
(* The state machine *)

\* the vector layers the calls are made with
Layers ==
    << GeoDataFrame(Utm, Box(-1, -1, 13, 13)),
       GeoDataFrame(Utm, Box(5, -1, 9, 9)),
       GeoDataFrame(Utm, Box(3, -1, 9, 9)),
       GeoDataFrame(Utm, Box(40, 40, 44, 44)),
       GeoDataFrame(Wgs84, Box(-101, -101, -87, -87)),
       GeoDataFrame(NoCrs, Box(-1, -1, 13, 13)) >>

LayerRefs == 1..Len(Layers)

\* the record of a call: its arguments, how it ended, what it returned and
\* the references the asset held when it was made
Call(op, path, polygon, dst, res, ret, self) ==
    [op |-> op, path |-> path, polygon |-> polygon, dst |-> dst,
     status |-> res.status, by |-> res.by, ret |-> ret,
     before |-> [profile |-> self.profile, datacube |-> self.datacube]]

\* what is still referred to after a call
Live(before, after, refs) ==
    LayerRefs \cup {before.profile, before.datacube, after.profile, after.datacube}
        \cup refs

Collect(h, live) == [i \in 1..Len(h) |-> IF i \in live THEN h[i] ELSE FreeCell]

Gdfs == {i \in 1..Len(heap) : heap[i].tag = "gdf"}

\* Raster() built from explicit fields, all left at their defaults
Init ==
    /\ raster = [path |-> None, name |-> None, profile |-> NoneRef,
                 datacube |-> NoneRef, metadata |-> None, wavelength |-> None]
    /\ heap = Layers
    /\ last = Call("__init__", None, NoneRef, NoCrs, Ok(None), None, raster)
    /\ openHandles = 0
    /\ history = [loaded |-> FALSE, rescales |-> 0]

Load(p) ==
    /\ Len(heap) <= MaxObjects
    /\ \E out \in LoadFromFile(raster, heap, p) :
        /\ raster' = out.raster
        /\ heap' = Collect(out.heap, Live(raster, out.raster, {}))
        /\ last' = Call("load_from_file", p, NoneRef, NoCrs, out, out.ret, raster)
        /\ history' = IF out.raster.datacube = raster.datacube THEN history
                      ELSE [loaded |-> out.status = "ok", rescales |-> 0]
    /\ UNCHANGED openHandles

DoRescale ==
    /\ Len(heap) <= MaxObjects
    /\ LET out == Rescale(raster, heap)
       IN /\ raster' = out.raster
          /\ heap' = Collect(out.heap, Live(raster, out.raster, {}))
          /\ last' = Call("rescale", None, NoneRef, NoCrs, out, out.ret, raster)
          /\ history' = IF out.status = "ok"
                        THEN [history EXCEPT !.rescales = @ + 1]
                        ELSE history
    /\ UNCHANGED openHandles

Clip(polygon) ==
    /\ Len(heap) <= MaxObjects
    /\ LET out == ClipRaster(raster, heap, polygon, openHandles)
       IN /\ raster' = out.raster
          /\ heap' = Collect(out.heap, Live(raster, out.raster, {polygon}))
          /\ last' = Call("clip_raster", None, polygon, NoCrs, out, out.ret, raster)
          /\ openHandles' = out.handles
    /\ UNCHANGED history

Reproject(gdf, dst_crs) ==
    /\ Len(heap) <= MaxObjects
    /\ LET out == ReprojectGdf(heap, gdf, dst_crs)
       IN /\ heap' = Collect(out.heap, Live(raster, raster, {gdf, out.ret}))
          /\ last' = Call("reproject_gdf", None, gdf, dst_crs, out,
                          IF out.status = "ok" THEN RetRef(out.ret) ELSE None, raster)
    /\ UNCHANGED <<raster, openHandles, history>>

Next ==
    \/ \E p \in RasterPaths : Load(p)
    \/ DoRescale
    \/ \E polygon \in Gdfs : Clip(polygon)
    \/ \E gdf \in Gdfs, dst_crs \in CRSs : Reproject(gdf, dst_crs)

Spec == Init /\ [][Next]_vars

----------------------------------------------------------------------------
(* Properties *)

Cube == heap[raster.datacube]
Profile == heap[raster.profile]

IsRasterPath(p) == Exists(p) /\ FileAt(p).kind = "raster"

\* the descriptors that stand next to the raster under the derived name
Sidecars(p) ==
    {f \in Files : /\ f.kind = "xml"
                   /\ Dirname(f.path) = Dirname(p)
                   /\ Basename(f.path) = Replace(Basename(p), "SPECTRAL_IMAGE.TIF",
                                                 "METADATA.XML")}

\* a descriptor is valid for a raster when its band table has one entry for
\* each band of the raster
ValidSidecar(p) ==
    \E f \in Sidecars(p) : Len(f.bands) = FileAt(p).profile.count

LoadEnded(l, status) == l.op = "load_from_file" /\ l.status = status
RescaleOk(l) == l.op = "rescale" /\ l.status = "ok"
ClipOk(l) == l.op = "clip_raster" /\ l.status = "ok"

\* gain and offset of band b as the metadata tree of the asset states them
BandEntries == raster.metadata.d.level_X.specific.bandCharacterisation.bandID.items
GainOf(b) == Float32(BandEntries[b].d.GainOfBand)
OffsetOf(b) == Float32(BandEntries[b].d.OffsetOfBand)

SameShape(a, b) == Bands(a) = Bands(b) /\ Rows(a) = Rows(b) /\ Cols(a) = Cols(b)

\* new is old with pixel * gain + offset applied band by band
Calibrated(new, old) ==
    /\ SameShape(new, old)
    /\ \A b \in 1..Bands(old) : \A r \in 1..Rows(old) : \A c \in 1..Cols(old) :
          new[b][r][c] = FMul(old[b][r][c], GainOf(b)) + OffsetOf(b)

\* some pixel of the cube is no fixed point of its band's transform
SomePixelMoves(old) ==
    \E b \in 1..Bands(old) : \E r \in 1..Rows(old) : \E c \in 1..Cols(old) :
        FMul(old[b][r][c], GainOf(b)) + OffsetOf(b) # old[b][r][c]

UnitCalibration ==
    \A b \in 1..Len(BandEntries) : GainOf(b) = Float32("1") /\ OffsetOf(b) = Float32("0")

FrameOfCube(before, after) ==
    /\ after.path = before.path /\ after.name = before.name
    /\ after.profile = before.profile /\ after.metadata = before.metadata
    /\ after.wavelength = before.wavelength

\* the geometry of a layer in the reference system crs
InCrs(layer, crs) ==
    LET d == Easting(crs) - Easting(layer.crs)
        g == layer.geometry
    IN Box(g.minx + d, g.miny + d, g.maxx + d, g.maxy + d)

ExtentOf(profile) ==
    Box(profile.transform.x0, profile.transform.y0,
        profile.transform.x0 + profile.transform.px * profile.width,
        profile.transform.y0 + profile.transform.px * profile.height)

Covers(g, e) ==
    g.minx <= e.minx /\ g.miny <= e.miny /\ e.maxx <= g.maxx /\ e.maxy <= g.maxy

Intersects(g, e) ==
    g.minx < e.maxx /\ e.minx < g.maxx /\ g.miny < e.maxy /\ e.miny < g.maxy

\* C1 (as claimed): every load of a raster whose directory holds no sidecar
\* descriptor ends in FileNotFoundError, whatever the path.
C1_MissingSidecarRaisesNotFound ==
    (last.op = "load_from_file" /\ IsRasterPath(last.path)
        /\ Sidecars(last.path) = {})
        => last.status = "FileNotFoundError"

\* C3: after a successful load of a raster with a valid sidecar the
\* wavelength vector has as many entries as the cube has bands.
C3_WavelengthPerBand ==
    (LoadEnded(last, "ok") /\ ValidSidecar(last.path))
        => /\ raster.wavelength.tag = "ndarray"
           /\ Len(raster.wavelength.data) = Bands(Cube.data)

C3_Witness ==
    /\ LoadEnded(last, "ok") /\ ValidSidecar(last.path)
    /\ Bands(Cube.data) = 2 /\ Len(raster.wavelength.data) = 2

\* the band count of the cube, the length of the wavelength vector and the
\* lengths of the gain and offset vectors read from the metadata are equal
BandCountsAgree ==
    LET go == GetGainsAndOffsets(raster)
    IN /\ raster.wavelength.tag = "ndarray"
       /\ go.status = "ok"
       /\ Bands(Cube.data) = Len(raster.wavelength.data)
       /\ Bands(Cube.data) = Len(go.value.gains)
       /\ Bands(Cube.data) = Len(go.value.offsets)

\* C4 (as claimed): the band counts agree in every state reached from a
\* loaded asset by rescale and clip_raster calls.
C4_BandCountsAlwaysAgree == history.loaded => BandCountsAgree

\* C4 (amended): the band counts agree in every state reached from a loaded
\* asset by rescale and clip_raster calls of which one rescale has succeeded.
C4_BandCountsAgreeOnceRescaled ==
    (history.loaded /\ history.rescales > 0) => BandCountsAgree

C4_Witness ==
    /\ history.loaded /\ history.rescales > 0
    /\ RescaleOk(last)
    /\ Bands(heap[last.before.datacube].data) # Len(raster.wavelength.data)
    /\ BandCountsAgree

C5_RescaleAlwaysChanges ==
    [][(RescaleOk(last') /\ ~UnitCalibration)
        => heap'[raster'.datacube].data # Cube.data]_vars

\* C5 (amended): every rescale applies the gains and offsets again, and the
\* cube after it differs from the cube before it exactly when the band count
\* changes or some pixel p of some band b has p * gain[b] + offset[b] # p.
C5_RescaleChangesIffPixelMoves ==
    [][RescaleOk(last')
        => (heap'[raster'.datacube].data # Cube.data
              <=> (\/ Bands(heap'[raster'.datacube].data) # Bands(Cube.data)
                   \/ SomePixelMoves(Cube.data)))]_vars

C5_Witness ==
    /\ RescaleOk(last)
    /\ history.rescales >= 2
    /\ Cube.data # heap[last.before.datacube].data

\* C6: reproject_gdf of a layer that has a CRS returns the layer itself when
\* its CRS is the target; otherwise it returns a new layer in the target CRS
\* whose geometry is the reprojected one; the input layer is as it was.
C6_Reproject ==
    [][(last'.op = "reproject_gdf" /\ heap[last'.polygon].crs # NoCrs)
        => /\ last'.status = "ok"
           /\ heap'[last'.polygon] = heap[last'.polygon]
           /\ IF heap[last'.polygon].crs = last'.dst
              THEN last'.ret = RetRef(last'.polygon)
              ELSE /\ last'.ret.ref \notin 1..Len(heap)
                   /\ heap'[last'.ret.ref].tag = "gdf"
                   /\ heap'[last'.ret.ref].crs = last'.dst
                   /\ heap'[last'.ret.ref].geometry
                        = InCrs(heap[last'.polygon], last'.dst)]_vars

C6_Witness ==
    /\ last.op = "reproject_gdf" /\ last.status = "ok"
    /\ last.ret.ref # last.polygon
    /\ heap[last.ret.ref].crs = last.dst
    /\ heap[last.ret.ref].geometry # heap[last.polygon].geometry

\* C7 (as claimed): a successful clip of a loaded asset to a polygon that
\* covers the raster extent leaves every pixel value, the height and the
\* width as they were.
C7_FullCoverClipPreserves ==
    [][(/\ ClipOk(last') /\ history.loaded
        /\ Covers(InCrs(heap[last'.polygon], Profile.crs), ExtentOf(Profile)))
        => heap'[raster'.datacube].data = Cube.data]_vars

\* C8: a successful clip_raster returns the asset; name, path, wavelength
\* and metadata, and the profile's CRS, band count, pixel type and nodata
\* are as before; height and width are the clipped cube's rows and columns;
\* the profile is a new object and the one held before is as it was.
C8_ClipFrame ==
    [][ClipOk(last')
        => /\ last'.ret = RetSelf
           /\ raster'.name = raster.name /\ raster'.path = raster.path
           /\ raster'.wavelength = raster.wavelength
           /\ raster'.metadata = raster.metadata
           /\ heap'[raster'.profile].crs = Profile.crs
           /\ heap'[raster'.profile].count = Profile.count
           /\ heap'[raster'.profile].dtype = Profile.dtype
           /\ heap'[raster'.profile].nodata = Profile.nodata
           /\ heap'[raster'.profile].height = Rows(heap'[raster'.datacube].data)
           /\ heap'[raster'.profile].width = Cols(heap'[raster'.datacube].data)
           /\ raster'.profile \notin 1..Len(heap)
           /\ heap'[raster.profile] = heap[raster.profile]]_vars

C8_Witness ==
    /\ ClipOk(last)
    /\ heap[raster.profile].width < heap[last.before.profile].width
    /\ heap[raster.profile].transform # heap[last.before.profile].transform

\* C9 (as claimed): a clip_raster with a polygon that does not intersect the
\* raster extent fails with the error of rasterio.mask.mask, leaves the cube
\* and the profile as they were and keeps no handle open.
C9_DisjointClipFailsInMask ==
    [][(/\ last'.op = "clip_raster" /\ raster.profile # NoneRef
        /\ heap[last'.polygon].crs # NoCrs
        /\ ~Intersects(InCrs(heap[last'.polygon], Profile.crs), ExtentOf(Profile)))
        => /\ last'.status = "ValueError" /\ last'.by = "rasterio.mask.mask"
           /\ raster' = raster
           /\ heap'[raster.profile] = heap[raster.profile]
           /\ heap'[raster.datacube] = heap[raster.datacube]
           /\ openHandles' = 0]_vars

\* C10: when load_from_file ends in FileNotFoundError, profile, cube, path
\* and name are those of the new raster, and metadata and wavelength are
\* what they were before the call.
C10_FailedLoadHalfAssigned ==
    [][LoadEnded(last', "FileNotFoundError")
        => /\ heap'[raster'.profile] = FileAt(last'.path).profile
           /\ heap'[raster'.datacube] = NdArray(FileAt(last'.path).profile.dtype,
                                               FileAt(last'.path).data)
           /\ raster'.path = last'.path
           /\ raster'.name = Str(Basename(last'.path))
           /\ raster'.metadata = raster.metadata
           /\ raster'.wavelength = raster.wavelength]_vars

C10_Witness ==
    /\ LoadEnded(last, "FileNotFoundError")
    /\ raster.metadata.tag = "dict"
    /\ raster.wavelength.tag = "ndarray"
    /\ Len(raster.wavelength.data) # Bands(Cube.data)
    /\ last.before.datacube # NoneRef
    /\ heap[last.before.datacube].data # Cube.data

====
